---- MODULE Spec2Model ----
(***************************************************************************)
(* scli.py: the server security tool.  The model covers the "cl" command   *)
(* (check_security_logs and the report printed by main) and the "cp"       *)
(* command (clean_privacy_logs).                                           *)
(*                                                                         *)
(* Text is modelled as sequences of one-character strings.  A character    *)
(* whose first symbol is "@" is a stamp glyph: it stands for the whole     *)
(* ISO-8601 text of one datetime (digits and punctuation, so it contains   *)
(* no keyword and lower() leaves it alone).  Time is in whole seconds.     *)
(***************************************************************************)
EXTENDS Integers, Sequences, FiniteSets, TLC

VARIABLES command, pc, fs, now, src, ln, keyword_data, result, stdout,
          confirm, idx

vars == <<command, pc, fs, now, src, ln, keyword_data, result, stdout,
          confirm, idx>>

-----------------------------------------------------------------------------
(* Program constants *)

AuthLog == <<"/", "v", "a", "r", "/", "l", "o", "g", "/", "a", "u", "t", "h", ".", "l", "o", "g">>
SysLog == <<"/", "v", "a", "r", "/", "l", "o", "g", "/", "s", "y", "s", "l", "o", "g">>
KernLog == <<"/", "v", "a", "r", "/", "l", "o", "g", "/", "k", "e", "r", "n", ".", "l", "o", "g">>
Btmp == <<"/", "v", "a", "r", "/", "l", "o", "g", "/", "b", "t", "m", "p">>
Wtmp == <<"/", "v", "a", "r", "/", "l", "o", "g", "/", "w", "t", "m", "p">>
LastLog == <<"/", "v", "a", "r", "/", "l", "o", "g", "/", "l", "a", "s", "t", "l", "o", "g">>

KwFailedPassword == <<"F", "a", "i", "l", "e", "d", " ", "p", "a", "s", "s", "w", "o", "r", "d">>
KwAcceptedPassword == <<"A", "c", "c", "e", "p", "t", "e", "d", " ", "p", "a", "s", "s", "w", "o", "r", "d">>
KwInvalidUser == <<"I", "n", "v", "a", "l", "i", "d", " ", "u", "s", "e", "r">>
KwSudo == <<"s", "u", "d", "o">>
KwRootLogin == <<"r", "o", "o", "t", " ", "l", "o", "g", "i", "n">>
KwPermissionDenied == <<"p", "e", "r", "m", "i", "s", "s", "i", "o", "n", " ", "d", "e", "n", "i", "e", "d">>
KwAuthenticationFailure == <<"a", "u", "t", "h", "e", "n", "t", "i", "c", "a", "t", "i", "o", "n", " ", "f", "a", "i", "l", "u", "r", "e">>
KwSecurityViolation == <<"S", "E", "C", "U", "R", "I", "T", "Y", " ", "V", "I", "O", "L", "A", "T", "I", "O", "N">>
KwError == <<"e", "r", "r", "o", "r">>
KwWarning == <<"w", "a", "r", "n", "i", "n", "g">>
KwCritical == <<"c", "r", "i", "t", "i", "c", "a", "l">>
KwEmergency == <<"e", "m", "e", "r", "g", "e", "n", "c", "y">>
KwFirewall == <<"f", "i", "r", "e", "w", "a", "l", "l">>
KwIptables == <<"i", "p", "t", "a", "b", "l", "e", "s">>
KwSegfault == <<"s", "e", "g", "f", "a", "u", "l", "t">>
KwFail == <<"f", "a", "i", "l">>
KwDenied == <<"d", "e", "n", "i", "e", "d">>

\* log_files of check_security_logs: the sources in dict order
LogFileOrder == <<AuthLog, SysLog, KernLog>>

\* log_files of check_security_logs: the keywords of one source, in list order
log_files(log_file) ==
    CASE log_file = AuthLog ->
           <<KwFailedPassword, KwAcceptedPassword, KwInvalidUser, KwSudo,
             KwRootLogin, KwPermissionDenied, KwAuthenticationFailure,
             KwSecurityViolation>>
      [] log_file = SysLog ->
           <<KwError, KwWarning, KwCritical, KwEmergency, KwFirewall,
             KwIptables>>
      [] log_file = KernLog ->
           <<KwSegfault, KwError, KwFail, KwDenied>>

\* log_files of clean_privacy_logs, in list order
PrivacyLogFiles == <<AuthLog, Btmp, Wtmp, LastLog>>

\* timedelta(hours=24), in seconds
Window == 86400

-----------------------------------------------------------------------------
(* Bounds and inputs *)

\* most lines the three scanned logs hold together
MaxLines == 2

\* most lines of the one log of the runs that exercise the statistics
MaxOccurrences == 3

\* the earlier of the two clock readings the runs are started at
Now0 == 2 * Window

NowChoices == {Now0, Now0 + 1}

\* fixed UTC offset of the aware stamps, in seconds
StampOffset == 60 * 60

StampGlyphs == {"@A", "@B", "@C", "@D", "@E"}

\* the datetime a stamp glyph is the ISO-8601 text of
StampOf(g) ==
    CASE g = "@A" -> [wall |-> Now0 - Window, aware |-> FALSE, off |-> 0]
      [] g = "@B" -> [wall |-> Now0 - 300 + StampOffset, aware |-> TRUE,
                      off |-> StampOffset]
      [] g = "@C" -> [wall |-> Now0 + 60, aware |-> FALSE, off |-> 0]
      [] g = "@D" -> [wall |-> Now0 - Window - 1 + StampOffset,
                      aware |-> TRUE, off |-> StampOffset]
      [] g = "@E" -> [wall |-> Now0 - 1000, aware |-> FALSE, off |-> 0]

\* a line stamped at the edge of the window of Now0, naive, keywords in
\* other case
LineBoundary ==
    <<"@A", " ", "S", "U", "D", "O", " ", "E", "r", "r", "o", "r", "\n">>

\* a line with an aware stamp and several keywords
LineMulti ==
    <<"@B", " ", "e", "r", "r", "o", "r", " ", "F", "a", "i", "l", "e", "d",
      " ", "p", "a", "s", "s", "w", "o", "r", "d", " ", "s", "u", "d", "o",
      "\n">>

\* a line stamped later than both clock readings, after leading whitespace
LineFuture ==
    <<" ", "@C", " ", "s", "u", "d", "o", " ", "E", "R", "R", "O", "R", "\n">>

\* a line that starts with no timestamp
LineBadStamp ==
    <<"s", "u", "d", "o", " ", "e", "r", "r", "o", "r", " ", "d", "e", "n",
      "i", "e", "d", "\n">>

\* a line stamped one second before the window of Now0, aware
LineOutside ==
    <<"@D", " ", "s", "u", "d", "o", " ", "e", "r", "r", "o", "r", "\n">>

\* the lines a log may hold, each with its line end
LinePool ==
    {LineBoundary, LineMulti, LineFuture, LineBadStamp, LineOutside}

\* what the user may type at the confirmation prompt
Answers ==
    { <<"y">>, <<"Y">>, <<>>, <<"n">>, <<"N">>, <<"y", "e", "s">>,
      <<" ", "y">> }

\* how a path answers to the file system
Statuses == {"ok", "missing", "denied", "faulty"}

-----------------------------------------------------------------------------
(* Library functions *)

UpperCase == <<"A", "B", "C", "D", "E", "F", "G", "H", "I", "J", "K", "L", "M",
               "N", "O", "P", "Q", "R", "S", "T", "U", "V", "W", "X", "Y", "Z">>
LowerCase == <<"a", "b", "c", "d", "e", "f", "g", "h", "i", "j", "k", "l", "m",
               "n", "o", "p", "q", "r", "s", "t", "u", "v", "w", "x", "y", "z">>

\* the lower-case letter of every upper-case letter
ToLower ==
    [c \in {UpperCase[i] : i \in 1..26} |->
       LowerCase[CHOOSE i \in 1..26 : UpperCase[i] = c]]

\* str.lower on one character
LowerChar(c) == IF c \in DOMAIN ToLower THEN ToLower[c] ELSE c

\* the text unchanged: lower() left out
LowerNone(s) == s

\* str.lower
Lower(s) == [i \in 1..Len(s) |-> LowerChar(s[i])]

\* the "in" operator on strings: sub occurs in s
Contains(sub, s) ==
    \E needle \in {sub}, hay \in {s} :
      \E i \in 0..(Len(hay) - Len(needle)) :
        SubSeq(hay, i + 1, i + Len(needle)) = needle

IsSpace(c) == c \in {" ", "\n", "\t"}

\* str.split(): the maximal runs of non-whitespace, in order
RECURSIVE SplitFrom(_, _, _)
SplitFrom(s, i, cur) ==
    IF i > Len(s)
      THEN IF cur = <<>> THEN <<>> ELSE <<cur>>
      ELSE IF IsSpace(s[i])
             THEN IF cur = <<>>
                    THEN SplitFrom(s, i + 1, <<>>)
                    ELSE <<cur>> \o SplitFrom(s, i + 1, <<>>)
             ELSE SplitFrom(s, i + 1, Append(cur, s[i]))

Split(s) == SplitFrom(s, 1, <<>>)

\* str.strip(): without leading and trailing whitespace
Strip(s) ==
    LET keep == {i \in 1..Len(s) : ~IsSpace(s[i])}
    IN  IF keep = {} THEN <<>>
        ELSE SubSeq(s, CHOOSE i \in keep : \A j \in keep : i <= j,
                       CHOOSE i \in keep : \A j \in keep : j <= i)

\* datetime.fromisoformat: the datetime of the text, or ValueError
fromisoformat(token) ==
    IF Len(token) = 1 /\ token[1] \in StampGlyphs
      THEN [ok |-> TRUE, dt |-> StampOf(token[1])]
      ELSE [ok |-> FALSE, dt |-> [wall |-> 0, aware |-> FALSE, off |-> 0]]

\* pytz.utc.localize: tag a naive datetime as UTC
localize(dt) == [wall |-> dt.wall, aware |-> TRUE, off |-> 0]

\* the instant of an aware datetime, in seconds
Instant(dt) == dt.wall - dt.off

\* f"{log_file}:{keyword}"
KeyOf(log_file, keyword) == log_file \o <<":">> \o keyword

\* key.split(":", 1)
SplitKey(key) ==
    LET colons == {i \in 1..Len(key) : key[i] = ":"}
    IN  IF colons = {} THEN <<key>>
        ELSE LET c == CHOOSE i \in colons : \A j \in colons : i <= j
             IN  <<SubSeq(key, 1, c - 1), SubSeq(key, c + 1, Len(key))>>

\* the greatest common divisor of a number and a positive number
GCD(a, b) ==
    CHOOSE d \in 1..b :
      /\ a % d = 0 /\ b % d = 0
      /\ \A e \in 1..b : (a % e = 0 /\ b % e = 0) => e <= d

\* the quotient num / den as a number (a fraction in lowest terms)
Quotient(num, den) ==
    [num |-> num \div GCD(num, den), den |-> den \div GCD(num, den)]

Zero == [num |-> 0, den |-> 1]

RECURSIVE SumSeq(_)
SumSeq(s) == IF s = <<>> THEN 0 ELSE Head(s) + SumSeq(Tail(s))

\* the place of element i after a stable sort by instant
Rank(s, i) ==
    Cardinality({j \in 1..Len(s) :
                   \/ Instant(s[j]) < Instant(s[i])
                   \/ (Instant(s[j]) = Instant(s[i]) /\ j <= i)})

\* the list in log order: sort() left out
SortNone(s) == s

\* list.sort() on aware datetimes: stable, ascending by instant
Sort(s) == [k \in 1..Len(s) |-> s[CHOOSE i \in 1..Len(s) : Rank(s, i) = k]]

-----------------------------------------------------------------------------
(* What is printed *)

Printed(msg, text) ==
    [msg |-> msg, text |-> text, keyword |-> <<>>, count |-> 0, avg |-> Zero]

PrintedBlock(log_file, keyword, count, avg) ==
    [msg |-> "block", text |-> log_file, keyword |-> keyword,
     count |-> count, avg |-> avg]

-----------------------------------------------------------------------------
(* check_security_logs *)

\* every declared (source, keyword) pair, in declaration order
RECURSIVE PairsFrom(_, _)
PairsFrom(s, k) ==
    IF s > Len(LogFileOrder) THEN <<>>
    ELSE IF k > Len(log_files(LogFileOrder[s])) THEN PairsFrom(s + 1, 1)
    ELSE <<[log_file |-> LogFileOrder[s],
            keyword |-> log_files(LogFileOrder[s])[k]]>>
         \o PairsFrom(s, k + 1)

DeclaredPairs == PairsFrom(1, 1)

\* the keys in dict insertion order
KeyOrder == [i \in 1..Len(DeclaredPairs) |->
               KeyOf(DeclaredPairs[i].log_file, DeclaredPairs[i].keyword)]

Keys == {KeyOrder[i] : i \in 1..Len(KeyOrder)}

\* keyword_data after the two loops that create the keys
EmptyKeywordData == [key \in Keys |-> <<>>]

\* the window test with < in place of <=
InWindowStrict(t_now, log_time) == t_now - Instant(log_time) < Window

\* the window test of the scan
InWindow(t_now, log_time) == t_now - Instant(log_time) <= Window

\* the datetime the scan compares and stores for a parsed one
Normalize(dt) == IF dt.aware THEN dt ELSE localize(dt)

\* the except ValueError handler: the diagnostic of a skipped match
SkipMatch(out, line) == Append(out, Printed("skipping", Strip(line)))

\* "break" in the handler: no keyword is tested after keyword i
BreakAfter(log_file, i) == Len(log_files(log_file)) + 1

\* "continue" in the handler: the keyword tested after keyword i
ContinueAfter(log_file, i) == i + 1

\* the body of "for keyword in log_files[log_file]" for one line, from
\* keyword i on; lowered is line.lower() and fields is line.split(), which
\* are the same for every keyword; raised is an exception other than
\* ValueError (IndexError of split()[0], TypeError of subtracting a naive
\* datetime from now)
RECURSIVE ScanKeywords(_, _, _, _, _, _, _, _)
ScanKeywords(log_file, line, lowered, fields, i, t_now, kd, out) ==
    IF i > Len(log_files(log_file))
      THEN [kd |-> kd, out |-> out, raised |-> FALSE]
    ELSE IF ~Contains(Lower(log_files(log_file)[i]), lowered)
      THEN ScanKeywords(log_file, line, lowered, fields, i + 1, t_now, kd, out)
    ELSE IF fields = <<>>
      THEN [kd |-> kd, out |-> out, raised |-> TRUE]
    ELSE IF ~fromisoformat(fields[1]).ok
      THEN ScanKeywords(log_file, line, lowered, fields,
                        ContinueAfter(log_file, i), t_now, kd,
                        SkipMatch(out, line))
    ELSE IF ~Normalize(fromisoformat(fields[1]).dt).aware
      THEN [kd |-> kd, out |-> out, raised |-> TRUE]
    ELSE IF InWindow(t_now, Normalize(fromisoformat(fields[1]).dt))
      THEN ScanKeywords(log_file, line, lowered, fields, i + 1, t_now,
             [kd EXCEPT ![KeyOf(log_file, log_files(log_file)[i])] =
                Append(@, Normalize(fromisoformat(fields[1]).dt))],
             out)
    ELSE ScanKeywords(log_file, line, lowered, fields, i + 1, t_now, kd, out)

\* the differences of consecutive timestamps, in seconds
Intervals(timestamps) ==
    [i \in 1..(Len(timestamps) - 1) |->
       Instant(timestamps[i + 1]) - Instant(timestamps[i])]

\* the entry of one key: (count, average interval)
Stats(unsorted) ==
    IF unsorted /= <<>>
      THEN LET timestamps == Sort(unsorted)
               intervals == Intervals(timestamps)
           IN  [count |-> Len(timestamps),
                average_interval |->
                  IF intervals /= <<>>
                    THEN Quotient(SumSeq(intervals), Len(intervals))
                    ELSE Zero]
      ELSE [count |-> 0, average_interval |-> Zero]

\* the mapping returned on the except path
EmptyResult == [key \in {} |-> Stats(<<>>)]

CurrentLog == LogFileOrder[src]

\* lines 39-45: the keys are created and the clock is read
ClBegin ==
    /\ command = "cl" /\ pc = "main"
    /\ keyword_data' = EmptyKeywordData
    /\ \E t \in NowChoices : now' = t
    /\ src' = 1
    /\ pc' = "next_source"
    /\ UNCHANGED <<command, fs, ln, result, stdout, confirm, idx>>

\* lines 47-49: the log does not exist
SkipMissing ==
    /\ pc = "next_source" /\ src <= Len(LogFileOrder)
    /\ fs[CurrentLog].status = "missing"
    /\ stdout' = Append(stdout, Printed("does not exist", CurrentLog))
    /\ src' = src + 1
    /\ UNCHANGED <<command, pc, fs, now, ln, keyword_data, result, confirm, idx>>

\* line 51: the log is opened
OpenLog ==
    /\ pc = "next_source" /\ src <= Len(LogFileOrder)
    /\ fs[CurrentLog].status \in {"ok", "faulty"}
    /\ ln' = 1
    /\ pc' = "reading"
    /\ UNCHANGED <<command, fs, now, src, keyword_data, result, stdout, confirm, idx>>

\* the exception of the scan not caught: it leaves the function
AbortPropagates ==
    /\ pc' = "crashed"
    /\ UNCHANGED <<command, fs, now, src, ln, keyword_data, result, stdout,
                   confirm, idx>>

\* lines 71-73: the except path of the scan
Abort ==
    /\ stdout' = Append(stdout, Printed("error reading", <<>>))
    /\ result' = EmptyResult
    /\ pc' = "returned"
    /\ UNCHANGED <<command, fs, now, src, ln, keyword_data, confirm, idx>>

\* line 51: open raises (no permission)
OpenFails ==
    /\ pc = "next_source" /\ src <= Len(LogFileOrder)
    /\ fs[CurrentLog].status = "denied"
    /\ Abort

\* line 52: reading the next line raises
ReadFails ==
    /\ pc = "reading"
    /\ fs[CurrentLog].status = "faulty"
    /\ Abort

\* lines 52-70: one line is read and tested against every keyword
ScanLine ==
    /\ pc = "reading"
    /\ fs[CurrentLog].status = "ok"
    /\ ln <= Len(fs[CurrentLog].lines)
    /\ \E line \in {fs[CurrentLog].lines[ln]} :
       \E lowered \in {Lower(line)}, fields \in {Split(line)} :
       \E r \in {ScanKeywords(CurrentLog, line, lowered, fields, 1, now,
                             keyword_data, stdout)} :
           IF r.raised
             THEN Abort
             ELSE /\ keyword_data' = r.kd
                  /\ stdout' = r.out
                  /\ ln' = ln + 1
                  /\ UNCHANGED <<command, pc, fs, now, src, result, confirm, idx>>

\* line 51-52: the log is exhausted and closed
CloseLog ==
    /\ pc = "reading"
    /\ fs[CurrentLog].status = "ok"
    /\ ln > Len(fs[CurrentLog].lines)
    /\ src' = src + 1
    /\ pc' = "next_source"
    /\ UNCHANGED <<command, fs, now, ln, keyword_data, result, stdout, confirm, idx>>

\* sorting and subtracting raise TypeError on a list that mixes naive and
\* aware datetimes
Comparable(timestamps) ==
    \A i, j \in 1..Len(timestamps) : timestamps[i].aware = timestamps[j].aware

\* lines 76-89: the statistics are computed and returned; an exception here
\* is outside the try and leaves the function
Statistics ==
    /\ pc = "next_source" /\ src > Len(LogFileOrder)
    /\ IF \A key \in DOMAIN keyword_data : Comparable(keyword_data[key])
         THEN /\ result' = [key \in DOMAIN keyword_data |->
                              Stats(keyword_data[key])]
              /\ keyword_data' = [key \in DOMAIN keyword_data |->
                                    Sort(keyword_data[key])]
              /\ pc' = "returned"
         ELSE /\ result' = result
              /\ keyword_data' = keyword_data
              /\ pc' = "crashed"
    /\ UNCHANGED <<command, fs, now, src, ln, stdout, confirm, idx>>

-----------------------------------------------------------------------------
(* main, command "cl" *)

\* the block printed for every key
ShowsBlockAlways(count) == count >= 0

\* whether main prints the block of a key
ShowsBlock(count) == count > 0

\* the blocks of the for loop over statistics.items(), from entry i on
RECURSIVE Blocks(_, _)
Blocks(statistics, i) ==
    IF i > Len(KeyOrder) THEN <<>>
    ELSE LET key == KeyOrder[i]
         IN  IF key \in DOMAIN statistics /\ ShowsBlock(statistics[key].count)
               THEN <<PrintedBlock(SplitKey(key)[1], SplitKey(key)[2],
                                   statistics[key].count,
                                   statistics[key].average_interval)>>
                    \o Blocks(statistics, i + 1)
               ELSE Blocks(statistics, i + 1)

\* a dict is true when it is not empty
Truthy(statistics) == DOMAIN statistics /= {}

\* lines 259-269
Report ==
    /\ command = "cl" /\ pc = "returned"
    /\ stdout' = IF Truthy(result)
                   THEN stdout \o <<Printed("suspicious activities", <<>>)>>
                               \o Blocks(result, 1)
                   ELSE Append(stdout, Printed("no suspicious", <<>>))
    /\ pc' = "done"
    /\ UNCHANGED <<command, fs, now, src, ln, keyword_data, result, confirm, idx>>

-----------------------------------------------------------------------------
(* clean_privacy_logs *)

CurrentPrivacyLog == PrivacyLogFiles[idx]

\* lines 198-205: the login records are shown
CpShowRecords ==
    /\ command = "cp" /\ pc = "main"
    /\ stdout' = stdout \o <<Printed("recent ssh", <<>>),
                             Printed("last output", <<>>)>>
    /\ pc' = "prompt"
    /\ UNCHANGED <<command, fs, now, src, ln, keyword_data, result, confirm, idx>>

\* lines 200-202, 226-227: the "last" command cannot be started
CpShowRecordsFails ==
    /\ command = "cp" /\ pc = "main"
    /\ stdout' = stdout \o <<Printed("recent ssh", <<>>),
                             Printed("error during cleaning", <<>>)>>
    /\ pc' = "done"
    /\ UNCHANGED <<command, fs, now, src, ln, keyword_data, result, confirm, idx>>

\* confirm before input() has returned
None == <<"None">>

\* the test of the answer with yes as the default
ConfirmedUnlessNo(answer) == Lower(answer) /= <<"n">>

\* the test of the answer
Confirmed(answer) == Lower(answer) = <<"y">>

\* lines 208-211: the answer is not y
CpCancel ==
    /\ pc = "prompt"
    /\ \E answer \in Answers :
         /\ ~Confirmed(answer)
         /\ confirm' = answer
    /\ stdout' = Append(stdout, Printed("cancelled", <<>>))
    /\ pc' = "done"
    /\ UNCHANGED <<command, fs, now, src, ln, keyword_data, result, idx>>

\* lines 208-209: the answer is y
CpConfirm ==
    /\ pc = "prompt"
    /\ \E answer \in Answers :
         /\ Confirmed(answer)
         /\ confirm' = answer
    /\ idx' = 1
    /\ pc' = "cleaning"
    /\ UNCHANGED <<command, fs, now, src, ln, keyword_data, result, stdout>>

\* lines 208, 226-227: input raises (end of input)
CpInputFails ==
    /\ pc = "prompt"
    /\ stdout' = Append(stdout, Printed("error during cleaning", <<>>))
    /\ pc' = "done"
    /\ UNCHANGED <<command, fs, now, src, ln, keyword_data, result, confirm, idx>>

\* lines 215-218: the file is truncated
CpTruncate ==
    /\ pc = "cleaning" /\ idx <= Len(PrivacyLogFiles)
    /\ fs[CurrentPrivacyLog].status = "ok"
    /\ fs' = [fs EXCEPT ![CurrentPrivacyLog].lines = <<>>]
    /\ stdout' = Append(stdout, Printed("cleaned", CurrentPrivacyLog))
    /\ idx' = idx + 1
    /\ UNCHANGED <<command, pc, now, src, ln, keyword_data, result, confirm>>

\* lines 219-220: open raises PermissionError
CpDenied ==
    /\ pc = "cleaning" /\ idx <= Len(PrivacyLogFiles)
    /\ fs[CurrentPrivacyLog].status = "denied"
    /\ stdout' = Append(stdout, Printed("permission denied", CurrentPrivacyLog))
    /\ idx' = idx + 1
    /\ UNCHANGED <<command, pc, fs, now, src, ln, keyword_data, result, confirm>>

\* lines 221-222: the file does not exist
CpNotFound ==
    /\ pc = "cleaning" /\ idx <= Len(PrivacyLogFiles)
    /\ fs[CurrentPrivacyLog].status = "missing"
    /\ stdout' = Append(stdout, Printed("not found", CurrentPrivacyLog))
    /\ idx' = idx + 1
    /\ UNCHANGED <<command, pc, fs, now, src, ln, keyword_data, result, confirm>>

\* lines 217, 226-227: open raises another error
CpOpenFails ==
    /\ pc = "cleaning" /\ idx <= Len(PrivacyLogFiles)
    /\ fs[CurrentPrivacyLog].status = "faulty"
    /\ stdout' = Append(stdout, Printed("error during cleaning", <<>>))
    /\ pc' = "done"
    /\ UNCHANGED <<command, fs, now, src, ln, keyword_data, result, confirm, idx>>

\* line 224
CpFinish ==
    /\ pc = "cleaning" /\ idx > Len(PrivacyLogFiles)
    /\ stdout' = Append(stdout, Printed("cleaned successfully", <<>>))
    /\ pc' = "done"
    /\ UNCHANGED <<command, fs, now, src, ln, keyword_data, result, confirm, idx>>

-----------------------------------------------------------------------------
(* Initial states *)

AllPaths == {AuthLog, SysLog, KernLog, Btmp, Wtmp, LastLog}

Absent == [status |-> "missing", lines |-> <<>>]

\* a log with n lines: a readable one when it has lines
LogsWith(n) ==
    IF n = 0
      THEN {[status |-> s, lines |-> <<>>] : s \in Statuses}
      ELSE {[status |-> "ok", lines |-> l] : l \in [1..n -> LinePool]}

\* a file clean_privacy_logs may meet
PrivacyFiles ==
    {[status |-> s, lines |-> <<>>] : s \in Statuses}
      \cup {[status |-> s, lines |-> <<l>>] :
              s \in Statuses \ {"missing"},
              l \in {LineMulti}}

InitCl ==
    /\ command = "cl"
    /\ \E n1 \in 0..MaxLines :
         \E n2 \in 0..(MaxLines - n1) :
           \E n3 \in 0..(MaxLines - n1 - n2) :
             \E f1 \in LogsWith(n1), f2 \in LogsWith(n2), f3 \in LogsWith(n3) :
               fs = [p \in AllPaths |->
                       CASE p = AuthLog -> f1
                         [] p = SysLog -> f2
                         [] p = KernLog -> f3
                         [] OTHER -> Absent]

InitCp ==
    /\ command = "cp"
    /\ \E f \in [{AuthLog, Btmp, Wtmp, LastLog} -> PrivacyFiles] :
         fs = [p \in AllPaths |->
                 IF p \in DOMAIN f THEN f[p] ELSE Absent]

\* the rest of the state when main is entered
Entered ==
    /\ pc = "main"
    /\ now = 0
    /\ src = 0
    /\ ln = 0
    /\ idx = 0
    /\ keyword_data = EmptyResult
    /\ result = EmptyResult
    /\ stdout = <<>>
    /\ confirm = None

Init == (InitCl \/ InitCp) /\ Entered

\* a line that holds a stamp and one keyword
StampedLine(g, keyword) == <<g, " ">> \o keyword \o <<"\n">>

\* the keywords of the runs that exercise the statistics
StatsKeywords == {KwSudo, KwError, KwFail}

\* "cl" on one log of stamped lines of one keyword, in any order; the other
\* two logs are empty and answer alike
InitStats ==
    /\ command = "cl"
    /\ \E i \in 1..Len(DeclaredPairs), n \in 0..MaxOccurrences, s \in Statuses :
         /\ DeclaredPairs[i].keyword \in StatsKeywords
         /\ \E g \in [1..n -> StampGlyphs] :
              fs = [p \in AllPaths |->
                      IF p = DeclaredPairs[i].log_file
                        THEN [status |-> "ok",
                              lines |-> [j \in 1..n |->
                                 StampedLine(g[j], DeclaredPairs[i].keyword)]]
                      ELSE IF p \in {AuthLog, SysLog, KernLog}
                        THEN [status |-> s, lines |-> <<>>]
                      ELSE Absent]
    /\ Entered

NextCl ==
    \/ ClBegin
    \/ SkipMissing
    \/ OpenLog
    \/ OpenFails
    \/ ReadFails
    \/ ScanLine
    \/ CloseLog
    \/ Statistics
    \/ Report

Next ==
    \/ ClBegin
    \/ SkipMissing
    \/ OpenLog
    \/ OpenFails
    \/ ReadFails
    \/ ScanLine
    \/ CloseLog
    \/ Statistics
    \/ Report
    \/ CpShowRecords
    \/ CpShowRecordsFails
    \/ CpCancel
    \/ CpConfirm
    \/ CpInputFails
    \/ CpTruncate
    \/ CpDenied
    \/ CpNotFound
    \/ CpOpenFails
    \/ CpFinish

Spec == Init /\ [][Next]_vars

SpecStats == InitStats /\ [][NextCl]_vars

-----------------------------------------------------------------------------
(* The claims.  Their definitions restate what the logs hold from the text *)
(* of the lines alone, apart from the operators of the scan.               *)

Blank == {" ", "\n", "\t"}

\* the place of a letter in the alphabet, 0 for any other character
LetterNo ==
    [c \in {UpperCase[i] : i \in 1..26} \cup {LowerCase[i] : i \in 1..26} |->
       CHOOSE i \in 1..26 : c \in {UpperCase[i], LowerCase[i]}]

SameLetter(a, b) ==
    a = b \/ (a \in DOMAIN LetterNo /\ b \in DOMAIN LetterNo
                /\ LetterNo[a] = LetterNo[b])

\* the keyword occurs in the line, letter case aside
OccursIn(keyword, line) ==
    \E o \in 0..(Len(line) - Len(keyword)) :
      \A j \in 1..Len(keyword) : SameLetter(keyword[j], line[o + j])

\* the first whitespace-delimited field of a line
LeadingField(line) ==
    LET solid == {i \in 1..Len(line) : line[i] \notin Blank}
    IN  IF solid = {} THEN <<>>
        ELSE LET a == CHOOSE i \in solid : \A j \in solid : i <= j
                 run == {j \in solid : \A k \in a..j : k \in solid}
                 b == CHOOSE i \in run : \A j \in run : j <= i
             IN  SubSeq(line, a, b)

IsStamp(field) == Len(field) = 1 /\ field[1] \in StampGlyphs

\* the instant of a stamp, a naive one read as UTC
UtcSeconds(field) ==
    LET d == StampOf(field[1])
    IN  IF d.aware THEN d.wall - d.off ELSE d.wall

\* the line counts for the keyword at clock reading now
Qualifies(line, keyword) ==
    /\ OccursIn(keyword, line)
    /\ IsStamp(LeadingField(line))
    /\ now - UtcSeconds(LeadingField(line)) <= Window

QualifyingLines(log_file, keyword) ==
    {i \in 1..Len(fs[log_file].lines) :
       Qualifies(fs[log_file].lines[i], keyword)}

PairSet == {DeclaredPairs[i] : i \in 1..Len(DeclaredPairs)}

PairKey(p) == KeyOf(p.log_file, p.keyword)

NoStats == [count |-> 0, average_interval |-> Zero]

Returned == command = "cl" /\ pc \in {"returned", "done"}

Failed == \E i \in 1..Len(stdout) : stdout[i].msg = "error reading"

Says(msg) == \E i \in 1..Len(stdout) : stdout[i].msg = msg

MaxOf(S) == CHOOSE x \in S : \A y \in S : y <= x
MinOf(S) == CHOOSE x \in S : \A y \in S : x <= y

\* the entry is the statistics of the qualifying lines of its own log
AgreesWithLog(stat, p) ==
    LET I == QualifyingLines(p.log_file, p.keyword)
        T == {UtcSeconds(LeadingField(fs[p.log_file].lines[i])) : i \in I}
        n == Cardinality(I)
    IN  /\ stat.count = n
        /\ IF n <= 1 THEN stat.average_interval = Zero
           ELSE /\ stat.average_interval.den > 0
                /\ stat.average_interval.num * (n - 1)
                     = (MaxOf(T) - MinOf(T)) * stat.average_interval.den

\* C1: whatever sources are missing or unreadable, the returned mapping has
\* exactly one entry for every declared (source, keyword) pair, and every
\* pair of a source that could not be read has count 0 and interval 0.
C1_EveryPairReported ==
    Returned =>
      /\ DOMAIN result = {PairKey(p) : p \in PairSet}
      /\ Cardinality(DOMAIN result) = Len(DeclaredPairs)
      /\ \A p \in PairSet :
           fs[p.log_file].status /= "ok" => result[PairKey(p)] = NoStats

\* C2: an inaccessible source (missing, or not openable or readable) is
\* skipped alone: the statistics of every other source are those of its own
\* lines, as if the inaccessible source held no matching line.
C2_InaccessibleSourceSkipped ==
    (Returned /\ \E i \in 1..Len(LogFileOrder) :
                   fs[LogFileOrder[i]].status /= "ok")
      => \A p \in PairSet :
           fs[p.log_file].status = "ok" =>
             /\ PairKey(p) \in DOMAIN result
             /\ AgreesWithLog(result[PairKey(p)], p)

Seconds(occ) == [i \in 1..Len(occ) |-> occ[i].wall - occ[i].off]

\* the k-th smallest of the values of t, repetitions counted
Kth(t, k) ==
    CHOOSE v \in {t[i] : i \in 1..Len(t)} :
      /\ Cardinality({i \in 1..Len(t) : t[i] < v}) < k
      /\ k <= Cardinality({i \in 1..Len(t) : t[i] <= v})

\* the sum of the differences of consecutive values, up to the k-th smallest
RECURSIVE GapTotal(_, _)
GapTotal(t, k) ==
    IF k < 2 THEN 0 ELSE (Kth(t, k) - Kth(t, k - 1)) + GapTotal(t, k - 1)

\* C3: the average interval of a key is taken over its retained occurrences
\* sorted ascending: with n >= 2 occurrences it is the mean of the n-1
\* consecutive differences, which is (tn - t1)/(n-1), and never negative,
\* whatever the order of the lines; with 0 or 1 occurrences it is 0 and the
\* count is 0 or 1.
C3_AverageInterval ==
    [][(command = "cl" /\ pc = "next_source" /\ pc' = "returned"
          /\ DOMAIN result' /= {})
        => \A key \in DOMAIN keyword_data :
             LET t == Seconds(keyword_data[key])
                 n == Len(t)
                 avg == result'[key].average_interval
                 used == Seconds(keyword_data'[key])
             IN  /\ result'[key].count = n
                 /\ Len(used) = n
                 /\ \A i \in 1..(n - 1) : used[i] <= used[i + 1]
                 /\ IF n <= 1 THEN avg = Zero
                    ELSE /\ avg.den > 0
                         /\ avg.num >= 0
                         /\ avg.num * (n - 1) = GapTotal(t, n) * avg.den
                         /\ GapTotal(t, n) = Kth(t, n) - Kth(t, 1)]_vars

\* three occurrences met in descending order, 1060 seconds from first to last
C3_Witness ==
    /\ pc = "returned"
    /\ fs[SysLog].lines = <<StampedLine("@C", KwError),
                            StampedLine("@B", KwError),
                            StampedLine("@E", KwError)>>
    /\ DOMAIN result = Keys
    /\ result[KeyOf(SysLog, KwError)] =
         [count |-> 3, average_interval |-> [num |-> 530, den |-> 1]]

\* C4: for a readable source and a keyword declared for it, the reported
\* count is the number of lines of that source that contain the keyword in
\* any letter case, start with a timestamp and pass the window filter; each
\* keyword is counted on its own and no line counts for another source.
C4_CountsMatchingLines ==
    Returned =>
      \A p \in PairSet :
        (fs[p.log_file].status = "ok" /\ PairKey(p) \in DOMAIN result)
          => result[PairKey(p)].count
               = Cardinality(QualifyingLines(p.log_file, p.keyword))

\* one line counted for two keywords of its log, an upper-case match, and
\* the same lines in another log counted for that log's keywords only
C4_Witness ==
    /\ pc = "returned" /\ now = Now0
    /\ fs[AuthLog].lines = <<LineMulti>>
    /\ fs[KernLog].lines = <<LineBoundary>>
    /\ DOMAIN result = Keys
    /\ result[KeyOf(AuthLog, KwFailedPassword)].count = 1
    /\ result[KeyOf(AuthLog, KwSudo)].count = 1
    /\ result[KeyOf(KernLog, KwError)].count = 1
    /\ result[KeyOf(KernLog, KwFail)].count = 0
    /\ result[KeyOf(SysLog, KwError)].count = 0

\* C5: a matching line stamped exactly now - 24 h is counted, one stamped a
\* second earlier is not; a stamp without a timezone is compared as UTC.
C5_WindowBoundary ==
    (Returned /\ ~Failed) =>
      \A p \in PairSet :
        fs[p.log_file].status = "ok" =>
          \A i \in 1..Len(fs[p.log_file].lines) :
            LET line == fs[p.log_file].lines[i]
                kept == Seconds(keyword_data[PairKey(p)])
            IN  (OccursIn(p.keyword, line) /\ IsStamp(LeadingField(line))) =>
                  LET t == UtcSeconds(LeadingField(line))
                  IN  /\ t = now - Window =>
                           \E j \in 1..Len(kept) : kept[j] = t
                      /\ t = now - Window - 1 =>
                           \A j \in 1..Len(kept) : kept[j] /= t

\* the naive stamp at the edge is kept, the one a second earlier is dropped
C5_Witness ==
    /\ pc = "returned" /\ now = Now0
    /\ fs[AuthLog].lines = <<LineOutside, LineBoundary>>
    /\ Seconds(keyword_data[KeyOf(AuthLog, KwSudo)]) = <<Now0 - Window>>

\* C6: every occurrence admitted into the statistics is stamped within
\* [now - window, now]; none is later than now.
C6_NoFutureOccurrence ==
    \A key \in DOMAIN keyword_data :
      \A j \in 1..Len(keyword_data[key]) :
        /\ now - Window <= Seconds(keyword_data[key])[j]
        /\ Seconds(keyword_data[key])[j] <= now

\* the keywords of the log that occur in the line
MatchCount(log_file, line) ==
    Cardinality({i \in 1..Len(log_files(log_file)) :
                   OccursIn(log_files(log_file)[i], line)})

\* C7: a line that matches a keyword and starts with no valid timestamp
\* costs that match alone, with a diagnostic: the scan goes on, every other
\* keyword is still tested against the line, and the later lines and
\* sources are still scanned and counted.
C7_UnparseableSkipped ==
    [][/\ (/\ command = "cl" /\ pc = "reading"
           /\ fs[LogFileOrder[src]].status = "ok"
           /\ ln <= Len(fs[LogFileOrder[src]].lines)
           /\ ~IsStamp(LeadingField(fs[LogFileOrder[src]].lines[ln])))
          => /\ pc' = "reading" /\ src' = src /\ ln' = ln + 1
             /\ keyword_data' = keyword_data
             /\ Len(stdout') = Len(stdout)
                  + MatchCount(LogFileOrder[src], fs[LogFileOrder[src]].lines[ln])
             /\ \A j \in (Len(stdout) + 1)..Len(stdout') :
                  /\ stdout'[j].msg = "skipping"
                  /\ stdout'[j].text
                       = SubSeq(fs[LogFileOrder[src]].lines[ln], 1,
                                Len(fs[LogFileOrder[src]].lines[ln]) - 1)
       /\ (/\ command = "cl" /\ pc = "next_source" /\ src > Len(LogFileOrder)
           /\ Says("skipping"))
          => /\ pc' = "returned"
             /\ \A p \in PairSet :
                  fs[p.log_file].status = "ok" =>
                    result'[PairKey(p)].count
                      = Cardinality(QualifyingLines(p.log_file, p.keyword))
      ]_vars

\* two keywords skipped on the first line, the line after it counted
C7_Witness ==
    /\ pc = "returned"
    /\ fs[KernLog].lines = <<LineBadStamp, LineMulti>>
    /\ Cardinality({i \in 1..Len(stdout) : stdout[i].msg = "skipping"}) = 2
    /\ DOMAIN result = Keys
    /\ result[KeyOf(KernLog, KwError)].count = 1
    /\ result[KeyOf(KernLog, KwFail)].count = 1

\* C8: check_security_logs never fails as a whole: whatever is missing,
\* unreadable or malformed, it runs to its return with no exception leaving
\* it, and after a failure of the scan it returns the empty mapping.
C8_NeverFails ==
    command = "cl" =>
      /\ pc /= "crashed"
      /\ pc /= "done" => ENABLED Next
      /\ Returned => DOMAIN result \subseteq Keys
      /\ (Returned /\ Failed) => DOMAIN result = {}

\* a log was scanned and counted before the next one failed to open
C8_Witness ==
    /\ pc = "done" /\ Failed
    /\ fs[AuthLog].lines = <<LineMulti>>
    /\ fs[SysLog].status = "denied"
    /\ Len(keyword_data[KeyOf(AuthLog, KwSudo)]) = 1
    /\ DOMAIN result = {}

Yes == {<<"y">>, <<"Y">>}

\* C9: clean_privacy_logs truncates only after the prompt was answered y or
\* Y; any other answer, the empty one too, is reported as a cancellation and
\* truncates nothing; once confirmed, a file that may not be written does
\* not stop the truncation of the files after it.
C9_TruncateOnlyAfterYes ==
    [][/\ fs' /= fs => (command = "cp" /\ confirm \in Yes)
       /\ (pc = "prompt" /\ confirm' /= None /\ confirm' \notin Yes)
            => /\ pc' = "done" /\ fs' = fs
               /\ stdout' = Append(stdout, Printed("cancelled", <<>>))
       /\ (pc = "prompt" /\ confirm' \in Yes) => pc' = "cleaning"
       /\ (pc = "cleaning" /\ idx <= Len(PrivacyLogFiles))
            => /\ fs[PrivacyLogFiles[idx]].status = "denied"
                    => (pc' = "cleaning" /\ idx' = idx + 1 /\ fs' = fs)
               /\ fs[PrivacyLogFiles[idx]].status = "ok"
                    => /\ pc' = "cleaning" /\ idx' = idx + 1
                       /\ fs'[PrivacyLogFiles[idx]].lines = <<>>
      ]_vars

\* the first file refused, the three after it truncated
C9_Witness ==
    /\ command = "cp" /\ pc = "done" /\ confirm = <<"Y">>
    /\ fs[AuthLog] = [status |-> "denied", lines |-> <<LineMulti>>]
    /\ \A f \in {Btmp, Wtmp, LastLog} : fs[f] = [status |-> "ok", lines |-> <<>>]
    /\ Cardinality({i \in 1..Len(stdout) : stdout[i].msg = "cleaned"}) = 3
    /\ Says("permission denied")

BlocksOf(p) ==
    {i \in 1..Len(stdout) :
       /\ stdout[i].msg = "block"
       /\ stdout[i].text = p.log_file
       /\ stdout[i].keyword = p.keyword}

\* C10: "cl" prints the block of a key exactly when its count is above 0,
\* and the "No suspicious log entries" message exactly when the mapping
\* returned is empty; when every count is 0 it prints the header alone.
C10_ReportBlocks ==
    (command = "cl" /\ pc = "done") =>
      /\ \A p \in PairSet :
           IF PairKey(p) \in DOMAIN result /\ result[PairKey(p)].count > 0
             THEN /\ Cardinality(BlocksOf(p)) = 1
                  /\ \A i \in BlocksOf(p) :
                       /\ stdout[i].count = result[PairKey(p)].count
                       /\ stdout[i].avg = result[PairKey(p)].average_interval
             ELSE BlocksOf(p) = {}
      /\ Cardinality({i \in 1..Len(stdout) : stdout[i].msg = "block"})
           = Cardinality({k \in DOMAIN result : result[k].count > 0})
      /\ Says("no suspicious") <=> DOMAIN result = {}
      /\ Says("suspicious activities") <=> DOMAIN result /= {}

\* a line was read, every count is 0, the header is printed with no block
C10_Witness ==
    /\ command = "cl" /\ pc = "done"
    /\ fs[AuthLog].lines = <<LineOutside>>
    /\ DOMAIN result = Keys
    /\ \A k \in Keys : result[k].count = 0
    /\ Says("suspicious activities")
    /\ ~Says("no suspicious") /\ ~Says("block")

====
